---------------------------- MODULE Spec2Model ----------------------------
(***************************************************************************)
(* The lyrics timing engine of kaixin (scripts/audio-sync.js) and the part *)
(* of the application (scripts/animation-controller.js, state-manager.js)  *)
(* that drives it.                                                         *)
(*                                                                         *)
(* Indices are the JavaScript ones (0-based): the unit at cursor i is      *)
(* characters[i + 1] of the TLA+ sequence.  Times are seconds, modelled as *)
(* integers: the code only compares and clamps them.                       *)
(*                                                                         *)
(* One action is one synchronous call (or one callback run by the browser) *)
(* from entry to return, with every emit it makes.  emitted is the list of *)
(* emit() calls made by the last call, in order; op records which call     *)
(* that was, the cursor it found and the time it was given or read.  The   *)
(* callbacks registered with the engine do not call back into it (those of *)
(* the application, animation-controller.js:158-176, do not), except the   *)
(* Stopper of SpecStopper, whose body calls stopSync.                      *)
(***************************************************************************)
EXTENDS Integers, Sequences, FiniteSets, TLC

VARIABLES
    store,          \* StateManager.observers, the unsubscribe functions handed out, and
                    \* the callbacks the last setState called
    songData,       \* the song the engine was constructed with: its verses
    characters,     \* AudioSyncEngine.characters
    currentIndex,   \* AudioSyncEngine.currentIndex
    isRunning,      \* AudioSyncEngine.isRunning
    syncLoop,       \* AudioSyncEngine.syncLoop: 0 is null, else a frame handle
    handlers,       \* AudioSyncEngine.handlers: per event, the callbacks in insertion order
    frames,         \* handles of the animation frames requested and not yet run or cancelled
    audio,          \* the <audio> element: currentTime, duration, paused
    state,          \* StateManager.state
    app,            \* KaixinApp: its own fields and the callbacks it has pending
    emitted,        \* the emit() calls of the last operation, in order
    delivered,      \* the callbacks those emits invoked, in order, each with its event
    op              \* the last operation: its name, its time, the cursor before it

vars ==
    <<store, songData, characters, currentIndex, isRunning, syncLoop, handlers, frames, audio, state,
      app, emitted, delivered, op>>

----------------------------------------------------------------------------
(* Bounds of the model.                                                    *)

\* A song holds at most MaxChars timestamped characters.
MaxChars == 3
\* Unit times are 0..MaxTime; playback and seek times reach one beyond each end.
MaxTime == 2

UnitTimes == 0 .. MaxTime
PlayTimes == 0 .. (MaxTime + 1)
SeekTimes == (0 - 1) .. (MaxTime + 1)

----------------------------------------------------------------------------
(* Song data: a sequence of verses, each the sequence of its characters'   *)
(* times (the other fields of a character are carried along untouched by   *)
(* the spread in flattenCharacters and never read by the engine).          *)

VerseSeqs == UNION {[1 .. k -> UnitTimes] : k \in 0 .. MaxChars}

\* Songs of no verse, one verse and two verses.
Songs ==
    {<<>>} \cup {<<v>> : v \in VerseSeqs}
           \cup UNION {{<<v, w>> : w \in {x \in VerseSeqs : Len(v) + Len(x) <= MaxChars}}
                           : v \in VerseSeqs}

\* The forEach/forEach/push of flattenCharacters: verse by verse, character by
\* character, globalIdx being the length of chars at the push.
RECURSIVE PushVerse(_, _, _, _)
PushVerse(chars, verse, verseIdx, charIdx) ==
    IF charIdx >= Len(verse) THEN chars
    ELSE PushVerse(Append(chars, [time |-> verse[charIdx + 1],
                                  verseIdx |-> verseIdx,
                                  charIdx |-> charIdx,
                                  globalIdx |-> Len(chars)]),
                   verse, verseIdx, charIdx + 1)

RECURSIVE PushVerses(_, _, _)
PushVerses(chars, verses, verseIdx) ==
    IF verseIdx >= Len(verses) THEN chars
    ELSE PushVerses(PushVerse(chars, verses[verseIdx + 1], verseIdx, 0), verses, verseIdx + 1)

\* chars.sort((a, b) => a.time - b.time): Array.prototype.sort is stable, so a
\* unit goes behind every unit already placed whose time is <= its own.
RECURSIVE InsertByTime(_, _)

\* Variant of InsertByTime: a unit whose time an already placed unit has is
\* dropped (a sort that keeps one unit per time).
InsertByTimeOncePerTime(sorted, c) ==
    IF \E k \in 1 .. Len(sorted) : sorted[k].time = c.time THEN sorted
    ELSE IF sorted = <<>> THEN <<c>>
    ELSE IF sorted[Len(sorted)].time - c.time <= 0 THEN Append(sorted, c)
    ELSE Append(InsertByTime(SubSeq(sorted, 1, Len(sorted) - 1), c), sorted[Len(sorted)])

InsertByTime(sorted, c) ==
    IF sorted = <<>> THEN <<c>>
    ELSE IF sorted[Len(sorted)].time - c.time <= 0 THEN Append(sorted, c)
    ELSE Append(InsertByTime(SubSeq(sorted, 1, Len(sorted) - 1), c), sorted[Len(sorted)])

RECURSIVE SortByTime(_, _)
SortByTime(sorted, rest) ==
    IF rest = <<>> THEN sorted
    ELSE SortByTime(InsertByTime(sorted, Head(rest)), Tail(rest))

\* Variant of flattenCharacters: the units are left in the order of the push.
flattenCharactersUnsorted(song) == PushVerses(<<>>, song, 0)

flattenCharacters(song) == SortByTime(<<>>, PushVerses(<<>>, song, 0))

----------------------------------------------------------------------------
(* emit(event, data): the payloads.  unit is the position in characters of *)
(* the character handed over (-1 for 'time-update').                       *)

VerseChange(chars, i) ==
    [kind |-> "verse-change", unit |-> i, verseIdx |-> chars[i + 1].verseIdx,
     globalIdx |-> chars[i + 1].globalIdx, currentTime |-> 0 - 1, duration |-> 0 - 1]

CharacterChange(chars, i) ==
    [kind |-> "character-change", unit |-> i, verseIdx |-> chars[i + 1].verseIdx,
     globalIdx |-> chars[i + 1].globalIdx, currentTime |-> 0 - 1, duration |-> 0 - 1]

TimeUpdate(currentTime, duration) ==
    [kind |-> "time-update", unit |-> 0 - 1, verseIdx |-> 0 - 1,
     globalIdx |-> 0 - 1, currentTime |-> currentTime, duration |-> duration]

----------------------------------------------------------------------------
(* AudioSyncEngine: the computations of its methods.                       *)

\* seekTo, the scan: newIndex is the last i of the leading run of units with
\* time <= the target; the scan breaks at the first unit beyond the target.
RECURSIVE SeekScan(_, _, _, _)
SeekScan(chars, time, i, newIndex) ==
    IF i < Len(chars)
    THEN IF chars[i + 1].time <= time THEN SeekScan(chars, time, i + 1, i) ELSE newIndex
    ELSE newIndex

\* Variant of seekIndex: the scan compares with < instead of <=.
RECURSIVE SeekScanStrict(_, _, _, _)
SeekScanStrict(chars, time, i, newIndex) ==
    IF i < Len(chars)
    THEN IF chars[i + 1].time < time THEN SeekScanStrict(chars, time, i + 1, i) ELSE newIndex
    ELSE newIndex

seekIndexStrict(chars, time) == SeekScanStrict(chars, time, 0, 0)

\* Variant of seekIndex: the scan counts the units passed instead of keeping
\* the index of the last one.
RECURSIVE SeekScanCount(_, _, _, _)
SeekScanCount(chars, time, i, newIndex) ==
    IF i < Len(chars)
    THEN IF chars[i + 1].time <= time THEN SeekScanCount(chars, time, i + 1, i + 1) ELSE newIndex
    ELSE newIndex

seekIndexCount(chars, time) == SeekScanCount(chars, time, 0, 0)

seekIndex(chars, time) == SeekScan(chars, time, 0, 0)

\* Variant of seekEmits: the seek also announces the unit's time.
seekEmitsWithTime(chars, i) ==
    IF i < Len(chars)
    THEN <<VerseChange(chars, i), CharacterChange(chars, i),
           TimeUpdate(chars[i + 1].time, 0)>>
    ELSE <<>>

\* Variant of seekEmits: nothing is emitted when the seek leaves the cursor
\* where it was.
seekEmitsOnChange(chars, i) ==
    IF i < Len(chars) /\ i # currentIndex
    THEN <<VerseChange(chars, i), CharacterChange(chars, i)>>
    ELSE <<>>

\* seekTo, the emits: both, when there is a unit at the cursor.
seekEmits(chars, i) ==
    IF i < Len(chars) THEN <<VerseChange(chars, i), CharacterChange(chars, i)>> ELSE <<>>

\* Variant of advances: the playback time must be past the next unit's time.
advancesStrict(chars, i, currentTime) ==
    i < Len(chars) - 1 /\ currentTime > chars[i + 2].time

\* update, the conditions of one turn of the while loop: the cursor is not at
\* the last index and the playback time has reached the next unit's time.
advances(chars, i, currentTime) ==
    i < Len(chars) - 1 /\ currentTime >= chars[i + 2].time

\* Variant of ScanEnd: the cursor is recomputed from the playback time, so it
\* follows the clock backwards too.
ScanEndResync(chars, i, currentTime) ==
    IF Len(chars) = 0 THEN i ELSE SeekScan(chars, currentTime, 0, 0)

\* update, the while loop: the cursor it ends at.
RECURSIVE ScanEnd(_, _, _)
ScanEnd(chars, i, currentTime) ==
    IF advances(chars, i, currentTime) THEN ScanEnd(chars, i + 1, currentTime) ELSE i

\* Variant of advanceEmits: 'verse-change' is emitted on every advance.
advanceEmitsEveryVerse(chars, i) ==
    <<VerseChange(chars, i), CharacterChange(chars, i)>>

\* Variant of advanceEmits: an advance announces the character only.
advanceEmitsCharOnly(chars, i) == <<CharacterChange(chars, i)>>

\* Variant of advanceEmits: the character is announced before its verse.
advanceEmitsCharFirst(chars, i) ==
    <<CharacterChange(chars, i)>>
        \o (IF chars[i].verseIdx # chars[i + 1].verseIdx THEN <<VerseChange(chars, i)>> ELSE <<>>)

\* update, one advance to unit i (from i - 1): 'verse-change' when the verse
\* differs from the previous unit's, then 'character-change'.
advanceEmits(chars, i) ==
    (IF chars[i].verseIdx # chars[i + 1].verseIdx THEN <<VerseChange(chars, i)>> ELSE <<>>)
        \o <<CharacterChange(chars, i)>>

\* update, the while loop: what it emits.
RECURSIVE ScanEmits(_, _, _)
ScanEmits(chars, i, currentTime) ==
    IF advances(chars, i, currentTime)
    THEN advanceEmits(chars, i + 1) \o ScanEmits(chars, i + 1, currentTime)
    ELSE <<>>

\* update: audio.duration || stateManager.state.duration || 0 (0 stands for an
\* unknown duration, NaN, which is falsy like 0).
timeUpdateDuration == IF audio.duration # 0 THEN audio.duration ELSE state.duration

\* Variant of updateEmits: 'time-update' is emitted after the scan.
updateEmitsTimeLast(chars, i, currentTime) ==
    ScanEmits(chars, i, currentTime) \o <<TimeUpdate(currentTime, timeUpdateDuration)>>

\* update past its isRunning test: 'time-update' with the time read and the
\* duration, then what the while loop emits.
updateEmits(chars, i, currentTime) ==
    <<TimeUpdate(currentTime, timeUpdateDuration)>> \o ScanEmits(chars, i, currentTime)

\* Variant of startEmits: no test of characters.length; reading verseIdx of
\* the undefined characters[0] throws a TypeError out of startSync.
startEmitsUnguarded(chars, i) ==
    IF Len(chars) > 0 THEN <<VerseChange(chars, i), CharacterChange(chars, i)>>
    ELSE <<[kind |-> "TypeError", unit |-> i, verseIdx |-> 0 - 1, globalIdx |-> 0 - 1,
            currentTime |-> 0 - 1, duration |-> 0 - 1]>>

\* Variant of startEmits: the first unit is announced, wherever the cursor is.
startEmitsFirstUnit(chars, i) ==
    IF Len(chars) > 0 THEN <<VerseChange(chars, 0), CharacterChange(chars, 0)>> ELSE <<>>

\* startSync: the unit at the cursor is announced when there is any unit.
startEmits(chars, i) ==
    IF Len(chars) > 0 THEN <<VerseChange(chars, i), CharacterChange(chars, i)>> ELSE <<>>

\* requestAnimationFrame: a handle no pending frame has.
NewFrame(fr) == CHOOSE f \in 1 .. (Cardinality(fr) + 1) : f \notin fr

\* Variant of requestAnimationFrame: nothing is scheduled.
requestNothing(fr) == fr

\* requestAnimationFrame: the frames pending after it.
requestAnimationFrame(fr) == fr \cup {NewFrame(fr)}

\* Variant of resetIndex: reset leaves the cursor where it is.
resetIndexKeep == currentIndex

\* reset: the cursor it sets.
resetIndex == 0

----------------------------------------------------------------------------
(* AudioSyncEngine: its methods as state changes of the engine.  Each sets *)
(* the engine's variables, frames, emitted and op; the caller says what    *)
(* happens to audio, state and app.  t is audio.currentTime as update      *)
(* reads it.                                                               *)

\* emit(event, data) for each of events in turn: every callback registered for
\* the event is called, in the Set's (insertion) order.
RECURSIVE Calls(_, _)
Calls(h, events) ==
    IF events = <<>> THEN <<>>
    ELSE (IF Head(events).kind \in DOMAIN h
          THEN [i \in 1 .. Len(h[Head(events).kind]) |->
                    [callback |-> h[Head(events).kind][i], event |-> Head(events)]]
          ELSE <<>>)
         \o Calls(h, Tail(events))

emit(events) ==
    /\ emitted' = events
    /\ delivered' = Calls(handlers, events)

\* A callback a client may register whose body calls stopSync() on the engine.
Stopper == "stop"

\* Whether the emits of events run the Stopper, that is whether stopSync is
\* called (once or more, it is idempotent) before the last of them returns.
CallsStop(h, events) ==
    \E k \in 1 .. Len(Calls(h, events)) : Calls(h, events)[k].callback = Stopper

\* Variant of returnsAtOnce: update has no isRunning test.
returnsAtOnceNever(running) == FALSE

\* update, its first statement: if (!this.isRunning) return.
returnsAtOnce(running) == ~running

\* update() on an engine that was running when the caller (startSync, having
\* emitted before, or the frame callback, before being empty) was entered, with
\* fr the frames pending at that point.  A Stopper run by the emits of before
\* has stopped the engine when update tests isRunning, and update returns.  A
\* Stopper run by update's own emits stops the engine and cancels the frame
\* syncLoop names, if it is pending, but the loop goes on to its end and the
\* last statement requests a frame all the same.
updateRunning(fr, t, before) ==
    IF returnsAtOnce(~CallsStop(handlers, before))
    THEN /\ emit(before)
         /\ isRunning' = FALSE
         /\ syncLoop' = 0
         /\ frames' = fr \ {syncLoop}
         /\ UNCHANGED currentIndex
    ELSE /\ currentIndex' = ScanEnd(characters, currentIndex, t)
         /\ emit(before \o updateEmits(characters, currentIndex, t))
         /\ IF CallsStop(handlers, before \o updateEmits(characters, currentIndex, t))
            THEN /\ isRunning' = FALSE
                 /\ syncLoop' = NewFrame(fr \ {syncLoop})
                 /\ frames' = requestAnimationFrame(fr \ {syncLoop})
            ELSE /\ isRunning' = TRUE
                 /\ syncLoop' = NewFrame(fr)
                 /\ frames' = requestAnimationFrame(fr)

\* Variant of startReturnsAtOnce: startSync has no isRunning test.
startReturnsAtOnceNever(running) == FALSE

\* startSync, its first statement: if (this.isRunning) return.
startReturnsAtOnce(running) == running

startSync(t) ==
    /\ op' = [name |-> "startSync", time |-> t, from |-> currentIndex, wasRunning |-> isRunning]
    /\ UNCHANGED <<store, songData, characters, handlers>>
    /\ IF startReturnsAtOnce(isRunning)
       THEN /\ emit(<<>>)
            /\ UNCHANGED <<currentIndex, isRunning, syncLoop, frames>>
       ELSE updateRunning(frames, t, startEmits(characters, currentIndex))

\* Variant of stopSync: the frame is cancelled, the engine is left running.
stopSyncLeavesRunning ==
    /\ op' = [name |-> "stopSync", time |-> 0 - 1, from |-> currentIndex, wasRunning |-> isRunning]
    /\ IF syncLoop # 0
       THEN syncLoop' = 0 /\ frames' = frames \ {syncLoop}
       ELSE UNCHANGED <<syncLoop, frames>>
    /\ emit(<<>>)
    /\ UNCHANGED <<store, songData, characters, currentIndex, isRunning, handlers>>

\* stopSync()
stopSync ==
    /\ op' = [name |-> "stopSync", time |-> 0 - 1, from |-> currentIndex, wasRunning |-> isRunning]
    /\ isRunning' = FALSE
    /\ IF syncLoop # 0
       THEN syncLoop' = 0 /\ frames' = frames \ {syncLoop}
       ELSE UNCHANGED <<syncLoop, frames>>
    /\ emit(<<>>)
    /\ UNCHANGED <<store, songData, characters, currentIndex, handlers>>

\* update() run with fr the frames left pending.
update(fr, t) ==
    /\ op' = [name |-> "update", time |-> t, from |-> currentIndex, wasRunning |-> isRunning]
    /\ UNCHANGED <<store, songData, characters, handlers>>
    /\ IF returnsAtOnce(isRunning)
       THEN /\ emit(<<>>)
            /\ frames' = fr
            /\ UNCHANGED <<currentIndex, isRunning, syncLoop>>
       ELSE updateRunning(fr, t, <<>>)

seekTo(time) ==
    /\ op' = [name |-> "seekTo", time |-> time, from |-> currentIndex, wasRunning |-> isRunning]
    /\ currentIndex' = seekIndex(characters, time)
    /\ emit(seekEmits(characters, seekIndex(characters, time)))
    /\ IF CallsStop(handlers, seekEmits(characters, seekIndex(characters, time)))
       THEN /\ isRunning' = FALSE
            /\ syncLoop' = 0
            /\ frames' = frames \ {syncLoop}
       ELSE UNCHANGED <<isRunning, syncLoop, frames>>
    /\ UNCHANGED <<store, songData, characters, handlers>>

reset ==
    /\ op' = [name |-> "reset", time |-> 0 - 1, from |-> currentIndex, wasRunning |-> isRunning]
    /\ currentIndex' = resetIndex
    /\ isRunning' = FALSE
    /\ IF syncLoop # 0
       THEN syncLoop' = 0 /\ frames' = frames \ {syncLoop}
       ELSE UNCHANGED <<syncLoop, frames>>
    /\ emit(<<>>)
    /\ UNCHANGED <<store, songData, characters, handlers>>

----------------------------------------------------------------------------
(* The engine on its own, called by any client in any order, the playback  *)
(* clock being whatever the audio element says when update reads it.       *)

\* The length of the track in the model.
Duration == MaxTime + 1

\* new StateManager()
InitState ==
    [currentVerseIndex |-> 0 - 1, currentCharIndex |-> 0 - 1, isPlaying |-> FALSE,
     audioTime |-> 0, duration |-> 0, introComplete |-> FALSE]

\* new StateManager(): no observer, no unsubscribe function handed out.
InitStore == [observers |-> [k \in {} |-> <<>>], unsubscribes |-> <<>>, notified |-> <<>>]

\* An <audio> element that has its metadata and has not played yet.
InitAudio == [currentTime |-> 0, duration |-> Duration, paused |-> TRUE, error |-> FALSE]

EventKinds == {"character-change", "verse-change", "time-update"}

\* new KaixinApp(), after init(): the intro has not run, the button shows the
\* play icon (updatePlayButtonIcon(false)), no audio.play() promise and no
\* intro timer is pending.  toggledOn records that the last togglePlayback()
\* took the startPlayback branch and that playback has not been stopped, nor
\* that request refused, since; escaped that Escape has been pressed and the
\* user has not asked for playback (flower, play button, Space) since; toggled
\* that togglePlayback() has been called; ignored that a control was used
\* before the intro was complete and its handler returned at once.
\* textHidden is _textHidden (not set by the constructor, so falsy);
\* firefliesActive and sunriseParticles are fireflies.isActive and the length
\* of fireflies.sunriseParticles.  renders counts the calls of
\* verseRenderer.renderAll() (one in init()); a character element is
\* <<key, render>>, key numbering the stones of one rendering, and those of the
\* latest rendering are the ones in the document; goldenActive is the set of
\* elements carrying the class 'golden-active' and currentActive is
\* animator.currentActive (null being <<>>).
InitApp ==
    [introRunning |-> FALSE, introTimer |-> FALSE, plays |-> <<>>, icon |-> "play",
     toggledOn |-> FALSE, escaped |-> FALSE, toggled |-> FALSE, ignored |-> FALSE,
     textHidden |-> FALSE, firefliesActive |-> FALSE, sunriseParticles |-> 0,
     renders |-> 1, goldenActive |-> {}, currentActive |-> <<>>]

\* new AudioSyncEngine(audio, songData, stateManager)
Init ==
    /\ songData \in Songs
    /\ characters = flattenCharacters(songData)
    /\ currentIndex = 0
    /\ isRunning = FALSE
    /\ syncLoop = 0
    /\ handlers = [k \in EventKinds |-> <<>>]
    /\ frames = {}
    /\ audio = InitAudio
    /\ state = InitState
    /\ store = InitStore
    /\ app = InitApp
    /\ emitted = <<>>
    /\ delivered = <<>>
    /\ op = [name |-> "new", time |-> 0 - 1, from |-> 0, wasRunning |-> FALSE]

\* The clock as the engine finds it at a read of audio.currentTime.
ClockReads(t) == audio' = [audio EXCEPT !.currentTime = t]

StartSync ==
    \E t \in PlayTimes :
        /\ startSync(t)
        /\ IF isRunning THEN UNCHANGED audio ELSE ClockReads(t)
        /\ UNCHANGED <<state, app>>

StopSync == stopSync /\ UNCHANGED <<audio, state, app>>

\* The browser runs a pending animation frame: () => this.update().
Tick ==
    \E f \in frames : \E t \in PlayTimes :
        /\ update(frames \ {f}, t)
        /\ IF isRunning THEN ClockReads(t) ELSE UNCHANGED audio
        /\ UNCHANGED <<state, app>>

\* update() called on a stopped engine (a call on a running engine is the
\* frame callback's, Tick).
UpdateStopped ==
    /\ ~isRunning
    /\ update(frames, audio.currentTime)
    /\ UNCHANGED <<audio, state, app>>

SeekTo == \E time \in SeekTimes : seekTo(time) /\ UNCHANGED <<audio, state, app>>

Reset == reset /\ UNCHANGED <<audio, state, app>>

Next == StartSync \/ StopSync \/ Tick \/ UpdateStopped \/ SeekTo \/ Reset

Spec == Init /\ [][Next]_vars

----------------------------------------------------------------------------
(* The engine left running while the track plays: the cursor is placed by  *)
(* seeks, the engine is started once and never stopped, the playback clock *)
(* moves forward up to the latest unit time, and the browser keeps running  *)
(* the frame the engine has requested.                                     *)

\* seekTo(time) before playback starts.
PlaySeek ==
    /\ ~isRunning
    /\ SeekTo

\* startSync() at the clock's present time.
PlayStart ==
    /\ ~isRunning
    /\ startSync(audio.currentTime)
    /\ UNCHANGED <<audio, state, app>>

\* The audio element plays on: currentTime grows, here by one unit of time.
AudioPlays ==
    /\ isRunning
    /\ audio.currentTime < MaxTime
    /\ audio' = [audio EXCEPT !.currentTime = @ + 1]
    /\ UNCHANGED <<store, songData, characters, currentIndex, isRunning, syncLoop,
                   handlers, frames, state, app, emitted, delivered, op>>

\* The browser runs the pending frame: update() reads audio.currentTime.
PlayTick ==
    \E f \in frames :
        /\ update(frames \ {f}, audio.currentTime)
        /\ UNCHANGED <<audio, state, app>>

NextPlay == PlaySeek \/ PlayStart \/ AudioPlays \/ PlayTick

\* startSync is called, the track keeps playing and requested frames keep
\* being run.
SpecPlay ==
    /\ Init /\ [][NextPlay]_vars
    /\ WF_vars(PlayStart) /\ WF_vars(AudioPlays) /\ WF_vars(PlayTick)

----------------------------------------------------------------------------
(* The engine with observers coming and going: on and off beside the other *)
(* operations, on the song of the specification's Scenario A (two units in *)
(* the first verse, one in the second).                                    *)

Callbacks == {"f", "g"}

\* Variant of SetAdd: a new callback goes in front of those already there.
SetAddFront(seq, cb) == IF \E i \in 1 .. Len(seq) : seq[i] = cb THEN seq ELSE <<cb>> \o seq

\* Set.prototype.add: a callback already in the Set keeps its place.
SetAdd(seq, cb) == IF \E i \in 1 .. Len(seq) : seq[i] = cb THEN seq ELSE Append(seq, cb)

\* Variant of SetDelete: the Set is cleared.
SetDeleteAll(seq, cb) == <<>>

\* Set.prototype.delete
SetDelete(seq, cb) == SelectSeq(seq, LAMBDA x : x # cb)

\* on(event, callback): an event the engine does not know is ignored.
on(event, cb) ==
    /\ op' = [name |-> "on", time |-> 0 - 1, from |-> currentIndex, wasRunning |-> isRunning]
    /\ handlers' = IF event \in DOMAIN handlers
                   THEN [handlers EXCEPT ![event] = SetAdd(handlers[event], cb)]
                   ELSE handlers
    /\ emitted' = <<>>
    /\ delivered' = <<>>
    /\ UNCHANGED <<store, songData, characters, currentIndex, isRunning, syncLoop, frames>>

\* off(event, callback)
off(event, cb) ==
    /\ op' = [name |-> "off", time |-> 0 - 1, from |-> currentIndex, wasRunning |-> isRunning]
    /\ handlers' = IF event \in DOMAIN handlers
                   THEN [handlers EXCEPT ![event] = SetDelete(handlers[event], cb)]
                   ELSE handlers
    /\ emitted' = <<>>
    /\ delivered' = <<>>
    /\ UNCHANGED <<store, songData, characters, currentIndex, isRunning, syncLoop, frames>>

On ==
    \E event \in EventKinds \cup {"seek"} : \E cb \in Callbacks :
        on(event, cb) /\ UNCHANGED <<audio, state, app>>

Off ==
    \E event \in EventKinds \cup {"seek"} : \E cb \in Callbacks :
        off(event, cb) /\ UNCHANGED <<audio, state, app>>

ScenarioA == <<<<0, 1>>, <<MaxTime>>>>

InitObservers ==
    /\ songData = ScenarioA
    /\ characters = flattenCharacters(songData)
    /\ currentIndex = 0
    /\ isRunning = FALSE
    /\ syncLoop = 0
    /\ handlers = [k \in EventKinds |-> <<>>]
    /\ frames = {}
    /\ audio = InitAudio
    /\ state = InitState
    /\ store = InitStore
    /\ app = InitApp
    /\ emitted = <<>>
    /\ delivered = <<>>
    /\ op = [name |-> "new", time |-> 0 - 1, from |-> 0, wasRunning |-> FALSE]

NextObservers == StartSync \/ StopSync \/ Tick \/ UpdateStopped \/ SeekTo \/ Reset \/ On \/ Off

SpecObservers == InitObservers /\ [][NextObservers]_vars

----------------------------------------------------------------------------
(* The engine with an observer that stops it: the Stopper, registered and  *)
(* removed at any time for any event kind, calls stopSync from inside emit *)
(* while startSync, update or seekTo is still running.  The frame the      *)
(* interrupted update requests stays pending on a stopped engine, and each *)
(* startSync after it requests one more.                                   *)

\* startSync is not called with this many frames pending.
MaxFrames == 2

StartSyncFew == Cardinality(frames) < MaxFrames /\ StartSync

OnStopper == \E event \in EventKinds : on(event, Stopper) /\ UNCHANGED <<audio, state, app>>

OffStopper == \E event \in EventKinds : off(event, Stopper) /\ UNCHANGED <<audio, state, app>>

InitStopper ==
    /\ songData = ScenarioA
    /\ characters = flattenCharacters(songData)
    /\ currentIndex = 0
    /\ isRunning = FALSE
    /\ syncLoop = 0
    /\ handlers = [k \in EventKinds |-> <<>>]
    /\ frames = {}
    /\ audio = InitAudio
    /\ state = InitState
    /\ store = InitStore
    /\ app = InitApp
    /\ emitted = <<>>
    /\ delivered = <<>>
    /\ op = [name |-> "new", time |-> 0 - 1, from |-> 0, wasRunning |-> FALSE]

NextStopper ==
    StartSyncFew \/ StopSync \/ Tick \/ UpdateStopped \/ SeekTo \/ Reset \/ OnStopper \/ OffStopper

SpecStopper == InitStopper /\ [][NextStopper]_vars

----------------------------------------------------------------------------
(* StateManager on its own: setState, subscribe, the unsubscribe functions *)
(* subscribe returns, and reset, called by any client in any order.  The   *)
(* store holds, per key, the callbacks in the order of the Set; each       *)
(* unsubscribe function handed out is kept with the key and callback it    *)
(* closes over and whether it has been called.  notified lists the         *)
(* callbacks the last call invoked, with their arguments.                  *)

\* subscribe is called at most this many times.
MaxSubscribes == 3

\* The keys clients set and observe in the model, and the values they set.
StoreKeys == {"currentCharIndex", "audioTime"}
StoreValues == {0, 1}

\* The updates objects: no, one or two properties, in the order they were
\* written in.
Properties == {[key |-> k, value |-> v] : k \in StoreKeys, v \in StoreValues}
Updates ==
    {<<>>} \cup {<<a>> : a \in Properties}
           \cup {u \in Properties \X Properties : u[1].key # u[2].key}

\* Object.assign(this.state, updates)
RECURSIVE Assign(_, _)
Assign(st, updates) ==
    IF updates = <<>> THEN st
    ELSE Assign([st EXCEPT ![Head(updates).key] = Head(updates).value], Tail(updates))

\* setState, the for loop: for each key in updates that has observers, each
\* callback is called with (this.state[key], oldState[key]).
RECURSIVE Notify(_, _, _, _)
Notify(observers, updates, oldState, newState) ==
    IF updates = <<>> THEN <<>>
    ELSE (IF Head(updates).key \in DOMAIN observers
          THEN [i \in 1 .. Len(observers[Head(updates).key]) |->
                    [callback |-> observers[Head(updates).key][i],
                     key |-> Head(updates).key,
                     newVal |-> newState[Head(updates).key],
                     oldVal |-> oldState[Head(updates).key]]]
          ELSE <<>>)
         \o Notify(observers, Tail(updates), oldState, newState)

setState(updates) ==
    /\ op' = [name |-> "setState", time |-> 0 - 1, from |-> currentIndex,
              wasRunning |-> isRunning, oldState |-> state, updates |-> updates]
    /\ state' = Assign(state, updates)
    /\ store' = [store EXCEPT
                    !.notified = Notify(store.observers, updates, state, Assign(state, updates))]

\* subscribe(key, callback): the Set of the key is created if need be, the
\* callback added, and a new unsubscribe function returned.
subscribe(key, callback) ==
    /\ op' = [name |-> "subscribe", time |-> 0 - 1, from |-> currentIndex,
              wasRunning |-> isRunning, key |-> key, callback |-> callback]
    /\ store' = [observers |->
                     [k \in DOMAIN store.observers \cup {key} |->
                         IF k = key
                         THEN SetAdd(IF k \in DOMAIN store.observers
                                     THEN store.observers[k] ELSE <<>>, callback)
                         ELSE store.observers[k]],
                 unsubscribes |->
                     Append(store.unsubscribes,
                            [key |-> key, callback |-> callback, called |-> FALSE]),
                 notified |-> <<>>]
    /\ UNCHANGED state

\* The unsubscribe function that the id-th subscribe returned:
\* this.observers.get(key).delete(callback)
unsubscribe(id) ==
    /\ op' = [name |-> "unsubscribe", time |-> 0 - 1, from |-> currentIndex,
              wasRunning |-> isRunning, id |-> id, again |-> store.unsubscribes[id].called]
    /\ store' = [observers |->
                     [store.observers EXCEPT ![store.unsubscribes[id].key] =
                         SetDelete(@, store.unsubscribes[id].callback)],
                 unsubscribes |-> [store.unsubscribes EXCEPT ![id].called = TRUE],
                 notified |-> <<>>]
    /\ UNCHANGED state

\* The engine is left alone by a call on the store.
EngineUntouched ==
    UNCHANGED <<songData, characters, currentIndex, isRunning, syncLoop, handlers, frames,
                audio, app, emitted, delivered>>

SetState == \E updates \in Updates : setState(updates) /\ EngineUntouched

Subscribe ==
    /\ Len(store.unsubscribes) < MaxSubscribes
    /\ \E key \in StoreKeys : \E callback \in Callbacks : subscribe(key, callback)
    /\ EngineUntouched

Unsubscribe == \E id \in 1 .. Len(store.unsubscribes) : unsubscribe(id) /\ EngineUntouched

\* StateManager.reset()
StoreReset ==
    /\ setState(<<[key |-> "currentVerseIndex", value |-> 0 - 1],
                  [key |-> "currentCharIndex", value |-> 0 - 1],
                  [key |-> "isPlaying", value |-> FALSE],
                  [key |-> "audioTime", value |-> 0]>>)
    /\ EngineUntouched

InitStoreAlone ==
    /\ songData = <<>>
    /\ characters = flattenCharacters(songData)
    /\ currentIndex = 0
    /\ isRunning = FALSE
    /\ syncLoop = 0
    /\ handlers = [k \in EventKinds |-> <<>>]
    /\ frames = {}
    /\ audio = InitAudio
    /\ state = InitState
    /\ store = InitStore
    /\ app = InitApp
    /\ emitted = <<>>
    /\ delivered = <<>>
    /\ op = [name |-> "new", time |-> 0 - 1, from |-> 0, wasRunning |-> FALSE]

NextStore == SetState \/ Subscribe \/ Unsubscribe \/ StoreReset

SpecStore == InitStoreAlone /\ [][NextStore]_vars

----------------------------------------------------------------------------
(* The application: KaixinApp driving the engine, the state store and the  *)
(* audio element.  The audio element is the browser's: play() unpauses it, *)
(* rewinds a track that has ended and returns a promise settled later;     *)
(* pause() pauses it; the position advances while it is not paused; when   *)
(* the position reaches the end of the track, 'ended' is fired.            *)
(*                                                                         *)
(* The promises of play() settle as the HTML media element has them.  A    *)
(* promise waits in the element's list of pending play promises until the  *)
(* element can play; then the list is taken and a task queued that fulfils *)
(* the promises taken.  pause() on an element that is not paused takes the *)
(* list and queues a task that rejects them, as does a track that fails to *)
(* load.  A queued task runs later, after any event the browser handled    *)
(* first; the promises of one task settle together.  app.plays holds the   *)
(* groups of promises not yet settled, oldest first: each with its status  *)
(* ("waiting" in the list, "resolving" or "rejecting" in a queued task)    *)
(* and, per promise, who awaits it ("toggle": startPlayback, "intro":      *)
(* startIntroSequence).                                                    *)

\* At most this many audio.play() promises are pending at a time.
MaxPending == 2

\* seekTo, nudge, seekToPosition: audio.duration || 258
FallbackDuration == 258

\* The skip buttons: nudge(-5), nudge(5)
SkipSeconds == 5

Min(a, b) == IF a <= b THEN a ELSE b
Max(a, b) == IF a >= b THEN a ELSE b

\* The three listeners of setupEventListeners, run for the emits of one engine
\* call: each stores its payload in the state store.
RECURSIVE Listen(_, _)
Listen(st, events) ==
    IF events = <<>> THEN st
    ELSE Listen(
           CASE Head(events).kind = "character-change" ->
                    [st EXCEPT !.currentCharIndex = Head(events).globalIdx]
             [] Head(events).kind = "verse-change" ->
                    [st EXCEPT !.currentVerseIndex = Head(events).verseIdx]
             [] Head(events).kind = "time-update" ->
                    [st EXCEPT !.audioTime = Head(events).currentTime]
             [] OTHER -> st,
           Tail(events))

\* VerseRenderer.getCharacterElement: the element of the latest rendering for
\* one of its n stones, undefined (<<>>) for any other key.
getCharacterElement(ap, n, key) == IF key \in 1 .. n THEN <<key, ap.renders>> ELSE <<>>

\* Variant of highlightCharacter: the previous highlight is left in place.
highlightCharacterKeepsPrevious(ap, n, key) ==
    LET element == getCharacterElement(ap, n, key)
    IN  IF element # <<>>
        THEN [ap EXCEPT !.goldenActive = @ \cup {element}, !.currentActive = element]
        ELSE ap

\* AnimationController.highlightCharacter(charData), key being the stone of
\* charData.verseIdx and charData.charIdx.
highlightCharacter(ap, n, key) ==
    LET removed == IF ap.currentActive # <<>>
                   THEN ap.goldenActive \ {ap.currentActive}
                   ELSE ap.goldenActive
        element == getCharacterElement(ap, n, key)
    IN  IF element # <<>>
        THEN [ap EXCEPT !.goldenActive = removed \cup {element}, !.currentActive = element]
        ELSE [ap EXCEPT !.goldenActive = removed]

\* AnimationController.clearAll(): document.querySelectorAll finds the
\* elements in the document.
clearAll(ap) ==
    [ap EXCEPT !.goldenActive = {e \in @ : e[2] # ap.renders}, !.currentActive = <<>>]

\* verseRenderer.clear(); verseRenderer.renderAll(): new elements replace
\* those in the document.
renderAll(ap) == [ap EXCEPT !.renders = @ + 1]

\* The 'character-change' listener's highlightCharacter, run for the emits of
\* one engine call; a unit's stone is numbered by its globalIdx.
RECURSIVE Highlights(_, _, _)
Highlights(ap, n, events) ==
    IF events = <<>> THEN ap
    ELSE Highlights(IF Head(events).kind = "character-change"
                    THEN highlightCharacter(ap, n, Head(events).globalIdx + 1)
                    ELSE ap,
                    n, Tail(events))

\* The interlude: this.interludeStart, this.interludeEnd.
interludeStart == 116
interludeEnd == 140

\* FireflyController.sunriseParticleCount
sunriseParticleCount == 120

\* FireflyController.show(includeSunrise)
firefliesShow(ap, includeSunrise) ==
    [ap EXCEPT !.firefliesActive = TRUE,
               !.sunriseParticles = IF includeSunrise /\ @ = 0 THEN sunriseParticleCount ELSE @]

\* FireflyController.hide(keepBase): the sunrise particles are always removed.
firefliesHide(ap, keepBase) ==
    [ap EXCEPT !.firefliesActive = IF keepBase THEN @ ELSE FALSE,
               !.sunriseParticles = 0]

\* Variant of inInterlude: the end of the interlude belongs to it.
inInterludeToEnd(currentTime) ==
    currentTime >= interludeStart /\ currentTime <= interludeEnd

\* handleInterlude, its test: currentTime >= backgroundStart && currentTime < backgroundEnd
inInterlude(currentTime) ==
    currentTime >= interludeStart /\ currentTime < interludeEnd

\* handleInterlude(currentTime)
handleInterlude(ap, currentTime) ==
    LET entered == IF inInterlude(currentTime) /\ ~ap.textHidden
                   THEN [(IF ap.sunriseParticles = 0 THEN firefliesShow(ap, TRUE) ELSE ap)
                            EXCEPT !.textHidden = TRUE]
                   ELSE ap
    IN  IF ~inInterlude(currentTime) /\ entered.textHidden
        THEN [(IF entered.sunriseParticles > 0 THEN firefliesHide(entered, TRUE) ELSE entered)
                 EXCEPT !.textHidden = FALSE]
        ELSE entered

\* The 'time-update' listener's handleInterlude, run for the emits of one
\* engine call.
RECURSIVE Interlude(_, _)
Interlude(ap, events) ==
    IF events = <<>> THEN ap
    ELSE Interlude(IF Head(events).kind = "time-update"
                   THEN handleInterlude(ap, Head(events).currentTime)
                   ELSE ap,
                   Tail(events))

\* What the listeners of setupEventListeners do to the page for the emits of
\* one engine call.
Presented(ap, events) == Highlights(Interlude(ap, events), Len(characters), events)

\* audio.play(): the element is no longer paused, and a track that had played
\* to its end starts over.
audioPlay(a) ==
    [a EXCEPT !.paused = FALSE,
              !.currentTime = IF a.duration # 0 /\ @ >= a.duration THEN 0 ELSE @]

\* audio.pause()
audioPause(a) == [a EXCEPT !.paused = TRUE]

\* The list of pending play promises is taken, to be settled as status says.
taken(plays, status) ==
    [i \in 1 .. Len(plays) |->
        IF plays[i].status = "waiting" THEN [plays[i] EXCEPT !.status = status] ELSE plays[i]]

\* audio.play(), its promise: fulfilled by a task queued at once if the element
\* can play (ready), else put on the list of pending play promises.
playRequested(plays, who, ready) ==
    IF ready THEN Append(plays, [status |-> "resolving", by |-> <<who>>])
    ELSE IF plays # <<>> /\ plays[Len(plays)].status = "waiting"
    THEN [plays EXCEPT ![Len(plays)].by = Append(@, who)]
    ELSE Append(plays, [status |-> "waiting", by |-> <<who>>])

\* audio.pause(), its effect on the promises: those on the list are taken and
\* rejected if the element was not paused.
pauseRequested(plays, a) == IF a.paused THEN plays ELSE taken(plays, "rejecting")

\* The number of promises not yet settled.
RECURSIVE Pending(_)
Pending(plays) == IF plays = <<>> THEN 0 ELSE Len(Head(plays).by) + Pending(Tail(plays))

\* Whether startPlayback awaits one of the promises of a group.
Toggles(group) == \E i \in 1 .. Len(group.by) : group.by[i] = "toggle"

\* audio.currentTime = t: the element keeps the position within the track it
\* knows.
audioSeek(a, t) ==
    [a EXCEPT !.currentTime = IF a.duration # 0 THEN Max(0, Min(a.duration, t)) ELSE Max(0, t)]

\* The engine is left alone by a step of the application.
EngineIdle ==
    UNCHANGED <<store, songData, characters, currentIndex, isRunning, syncLoop, handlers,
                frames, emitted, delivered, op>>

\* startPlayback(), up to its await: audio.play() is called and its promise
\* is pending.
startPlayback(ap) == [ap EXCEPT !.plays = playRequested(@, "toggle", audio.duration # 0)]

\* stopPlayback(), ap being the application as the caller leaves it.
stopPlayback(ap) ==
    /\ audio' = audioPause(audio)
    /\ stopSync
    /\ state' = [state EXCEPT !.isPlaying = FALSE]
    /\ app' = [ap EXCEPT !.icon = "play", !.toggledOn = FALSE,
                         !.plays = pauseRequested(@, audio)]

\* togglePlayback(): stopPlayback() or startPlayback() by state.isPlaying, then
\* updatePlayButtonIcon(!isPlaying).
togglePlayback ==
    IF state.isPlaying
    THEN stopPlayback([app EXCEPT !.toggled = TRUE])
    ELSE /\ Pending(app.plays) < MaxPending
         /\ audio' = audioPlay(audio)
         /\ app' = [startPlayback(app) EXCEPT !.icon = "pause", !.toggledOn = TRUE,
                                              !.escaped = FALSE, !.toggled = TRUE]
         /\ UNCHANGED state
         /\ EngineIdle

\* Variant of clamp: the time is taken as it comes.
clampNone(duration, time) == time

\* Math.max(0, Math.min(duration, time))
clamp(duration, time) == Max(0, Min(duration, time))

\* KaixinApp.seekTo(time)
appSeekTo(time) ==
    LET duration == IF audio.duration # 0 THEN audio.duration ELSE FallbackDuration
        targetTime == clamp(duration, time)
    IN  /\ audio' = audioSeek(audio, targetTime)
        /\ seekTo(targetTime)
        /\ state' = Listen(state, emitted')
        /\ app' = Presented(app, emitted')

\* nudge(seconds)
nudge(seconds) ==
    LET duration == IF audio.duration # 0 THEN audio.duration ELSE FallbackDuration
    IN  appSeekTo(clamp(duration, audio.currentTime + seconds))

\* The flower is clicked: the intro starts (once); audio.play() is called at
\* once and the timer that ends the intro is set.  The flower is taken off the
\* page when the intro ends.
FlowerClick ==
    /\ ~state.introComplete
    /\ ~app.introRunning
    /\ Pending(app.plays) < MaxPending
    /\ audio' = audioPlay(audio)
    /\ app' = [firefliesShow(app, FALSE) EXCEPT
                          !.introRunning = TRUE, !.introTimer = TRUE,
                          !.plays = playRequested(@, "intro", audio.duration # 0),
                          !.escaped = FALSE]
    /\ UNCHANGED state
    /\ EngineIdle

\* The timer of startIntroSequence (petals, then title) fires.
IntroTimer ==
    /\ app.introTimer
    /\ app' = [app EXCEPT !.introTimer = FALSE]
    /\ state' = [state EXCEPT !.introComplete = TRUE]
    /\ UNCHANGED audio
    /\ EngineIdle

\* Variant of introComplete: the controls work from the start.
introCompleteAlways(st) == TRUE

\* this.state.state.introComplete, as the handlers of the controls test it.
introComplete(st) == st.introComplete

\* if (!this.state.state.introComplete) return;
Ignored ==
    /\ app' = [app EXCEPT !.ignored = TRUE]
    /\ UNCHANGED <<audio, state>>
    /\ EngineIdle

\* The play button is clicked.
CtrlPlayClick == IF introComplete(state) THEN togglePlayback ELSE Ignored

\* Space is pressed.
KeySpace == IF introComplete(state) THEN togglePlayback ELSE Ignored

\* Escape is pressed.
KeyEscape == stopPlayback([app EXCEPT !.escaped = TRUE])

\* The oldest queued task fulfils its promises: for each, the code after the
\* await in startPlayback, or the then() of startIntroSequence.  The first
\* of them starts the engine, and startSync returns at once for the others.
PlayResolved ==
    /\ app.plays # <<>>
    /\ Head(app.plays).status = "resolving"
    /\ startSync(audio.currentTime)
    /\ state' = Listen(
                   IF Toggles(Head(app.plays))
                   THEN [state EXCEPT !.isPlaying = TRUE, !.introComplete = TRUE]
                   ELSE [state EXCEPT !.isPlaying = TRUE],
                   emitted')
    /\ app' = Presented([app EXCEPT !.plays = Tail(@),
                                    !.icon = IF Toggles(Head(app.plays)) THEN "pause" ELSE @],
                        emitted')
    /\ UNCHANGED audio

\* The oldest queued task rejects its promises: the catch only logs.
PlayRejected ==
    /\ app.plays # <<>>
    /\ Head(app.plays).status = "rejecting"
    /\ app' = [app EXCEPT !.plays = Tail(@)]
    /\ UNCHANGED <<audio, state>>
    /\ EngineIdle

\* The track fails to load: the promises on the list are taken and rejected.
LoadFailed ==
    /\ audio.duration = 0
    /\ ~audio.error
    /\ audio' = [audio EXCEPT !.error = TRUE]
    /\ app' = [app EXCEPT !.plays = taken(@, "rejecting"), !.toggledOn = FALSE]
    /\ UNCHANGED state
    /\ EngineIdle

\* The skip buttons.
SkipBack == IF introComplete(state) THEN nudge(0 - SkipSeconds) ELSE Ignored
SkipForward == IF introComplete(state) THEN nudge(SkipSeconds) ELSE Ignored

\* The timeline track is pressed or clicked at some position: seekToPosition.
Scrub ==
    IF introComplete(state)
    THEN \E time \in PlayTimes \cup {IF audio.duration # 0 THEN audio.duration ELSE FallbackDuration} :
          /\ time <= (IF audio.duration # 0 THEN audio.duration ELSE FallbackDuration)
          /\ appSeekTo(time)
    ELSE Ignored

\* A character stone is clicked: 'stone-click' with the character's time.
StoneClick == \E i \in 1 .. Len(characters) : appSeekTo(characters[i].time)

\* The browser runs the pending animation frame: update() and the listeners.
FrameTick ==
    \E f \in frames :
        /\ update(frames \ {f}, audio.currentTime)
        /\ state' = Listen(state, emitted')
        /\ app' = Presented(app, emitted')
        /\ UNCHANGED audio

\* The track's metadata arrives: 'loadedmetadata' and its listener.
\* The promises on the list are taken and fulfilled: the element can play.
LoadedMetadata ==
    /\ audio.duration = 0
    /\ ~audio.error
    /\ audio' = [audio EXCEPT !.duration = Duration, !.currentTime = Min(@, Duration)]
    /\ state' = [state EXCEPT !.duration = Duration]
    /\ app' = [app EXCEPT !.plays = taken(@, "resolving")]
    /\ EngineIdle

\* Playback moves on by a second.
AudioAdvance ==
    /\ ~audio.paused
    /\ audio.duration # 0
    /\ audio.currentTime < audio.duration
    /\ audio' = [audio EXCEPT !.currentTime = @ + 1]
    /\ UNCHANGED <<state, app>>
    /\ EngineIdle

\* Playback is at the end of the track: 'ended' and its listener.
AudioEnded ==
    /\ ~audio.paused
    /\ audio.duration # 0
    /\ audio.currentTime >= audio.duration
    /\ stopPlayback(app)

\* The songs the application is run on: Scenario A, a song that starts after
\* an instrumental opening, as the shipped one does, a song whose second verse
\* is sung between two characters of the first, and a song without text.
AppSongs == {ScenarioA, <<<<1, MaxTime>>>>, <<<<0, MaxTime>>, <<1>>>>, <<>>}

\* The page after init(): the engine constructed and the listeners registered,
\* the metadata of the track not yet loaded.
InitKaixin ==
    /\ songData \in AppSongs
    /\ characters = flattenCharacters(songData)
    /\ currentIndex = 0
    /\ isRunning = FALSE
    /\ syncLoop = 0
    /\ handlers = [k \in EventKinds |-> <<"app">>]
    /\ frames = {}
    /\ audio = [InitAudio EXCEPT !.duration = 0]
    /\ state = InitState
    /\ store = InitStore
    /\ app = InitApp
    /\ emitted = <<>>
    /\ delivered = <<>>
    /\ op = [name |-> "new", time |-> 0 - 1, from |-> 0, wasRunning |-> FALSE]

NextApp ==
    \/ FlowerClick \/ IntroTimer \/ CtrlPlayClick \/ KeySpace \/ KeyEscape
    \/ PlayResolved \/ PlayRejected \/ LoadFailed \/ SkipBack \/ SkipForward \/ Scrub \/ StoneClick
    \/ FrameTick \/ LoadedMetadata \/ AudioAdvance \/ AudioEnded

SpecApp == InitKaixin /\ [][NextApp]_vars

----------------------------------------------------------------------------
(* The application around the interlude: the track is loaded and long       *)
(* enough, playback is started, stopped and moved, and the frames read the  *)
(* clock at times before, within and after the interlude, in any order.    *)

\* Times up to InterludeMargin before the interlude and after it are read.
InterludeMargin == 2

InterludeTimes ==
    {0} \cup ((interludeStart - InterludeMargin) .. (interludeEnd + InterludeMargin))

\* The page with the track's metadata loaded.
InitInterlude ==
    /\ songData = ScenarioA
    /\ characters = flattenCharacters(songData)
    /\ currentIndex = 0
    /\ isRunning = FALSE
    /\ syncLoop = 0
    /\ handlers = [k \in EventKinds |-> <<"app">>]
    /\ frames = {}
    /\ audio = [InitAudio EXCEPT !.duration = interludeEnd + InterludeMargin]
    /\ state = [InitState EXCEPT !.duration = interludeEnd + InterludeMargin]
    /\ store = InitStore
    /\ app = InitApp
    /\ emitted = <<>>
    /\ delivered = <<>>
    /\ op = [name |-> "new", time |-> 0 - 1, from |-> 0, wasRunning |-> FALSE]

\* Playback starts with the clock at t: audio.play() is fulfilled and
\* startPlayback goes on to startSync.
InterludePlay ==
    \E t \in InterludeTimes :
        /\ ~isRunning
        /\ startSync(t)
        /\ audio' = [audio EXCEPT !.currentTime = t, !.paused = FALSE]
        /\ state' = Listen([state EXCEPT !.isPlaying = TRUE, !.introComplete = TRUE],
                           emitted')
        /\ app' = Presented([app EXCEPT !.icon = "pause"], emitted')

\* A frame runs and reads the clock at t.
InterludeTick ==
    \E f \in frames : \E t \in InterludeTimes :
        /\ update(frames \ {f}, t)
        /\ audio' = [audio EXCEPT !.currentTime = t]
        /\ state' = Listen(state, emitted')
        /\ app' = Presented(app, emitted')

\* The user moves the position: a skip, the timeline, a character.
InterludeSeek == \E t \in InterludeTimes : appSeekTo(t)

\* Playback is stopped.
InterludeStop == isRunning /\ stopPlayback(app)

NextInterlude == InterludePlay \/ InterludeTick \/ InterludeSeek \/ InterludeStop

SpecInterlude == InitInterlude /\ [][NextInterlude]_vars

----------------------------------------------------------------------------
(* The animator on the rendered page: highlightCharacter for any character, *)
(* one of the song or not, clearAll, and the verses rendered anew when the  *)
(* settings are saved.                                                      *)

\* The verses are rendered at most MaxRenders times.
MaxRenders == 3

\* The rest of the page is left alone by a call on the animator.
PageIdle ==
    /\ UNCHANGED <<audio, state>>
    /\ EngineIdle

\* animator.highlightCharacter(charData): a character of the song, or one the
\* renderer has no element for.
HighlightCharacter ==
    \E key \in 1 .. (MaxChars + 1) :
        /\ app' = highlightCharacter(app, Len(characters), key)
        /\ PageIdle

\* animator.clearAll()
ClearAll == app' = clearAll(app) /\ PageIdle

\* The settings are saved: the verses are rendered anew.
SettingsSave ==
    /\ app.renders < MaxRenders
    /\ app' = renderAll(app)
    /\ PageIdle

NextAnimator == HighlightCharacter \/ ClearAll \/ SettingsSave

SpecAnimator == InitKaixin /\ [][NextAnimator]_vars

----------------------------------------------------------------------------
(* Properties of the engine, checked under Spec.                           *)

N == Len(characters)

\* The events of one kind among those the last operation emitted, in order.
Emitted(kind) == SelectSeq(emitted, LAMBDA e : e.kind = kind)

\* An update that ran: the frame callback's, on a running engine.
TickRan == op.name = "update" /\ op.wasRunning

\* The last operation announced unit i with a 'character-change'.
Entered(i) ==
    \E k \in 1 .. Len(emitted) :
        emitted[k].kind = "character-change" /\ emitted[k].unit = i

\* C28: with the engine left running, frames run and the clock moving forward
\* up to the last unit's time, every unit after the cursor is eventually
\* announced by a 'character-change', the cursor eventually is the last index
\* for good, a tick announces each unit it enters once, in order, and no scan
\* advances more than length-1 times.
C28_CursorReachesEnd ==
    /\ <>[](N = 0 \/ currentIndex = N - 1)
    /\ \A i \in 1 .. MaxChars :
          (isRunning /\ currentIndex < i /\ i < N) ~> Entered(i)
    /\ [][/\ PlayTick =>
                (/\ Len(Emitted("character-change")') = currentIndex' - currentIndex
                 /\ \A k \in 1 .. (currentIndex' - currentIndex) :
                       Emitted("character-change")'[k].unit = currentIndex + k)
          /\ (PlayTick \/ PlayStart) =>
                (/\ currentIndex <= currentIndex'
                 /\ currentIndex' - currentIndex <= IF N = 0 THEN 0 ELSE N - 1)]_vars

\* The clock stands at the last unit's time and a tick has taken the cursor
\* over two units at once to the last index of a full song.
C28_Witness ==
    /\ isRunning /\ TickRan
    /\ N = MaxChars /\ currentIndex = N - 1
    /\ op.from + 2 <= currentIndex
    /\ audio.currentTime = characters[N].time

\* C35: a call of seekTo leaves the running flag, the pending-tick handle,
\* the set of requested frames and the flattened sequence as they were and
\* emits nothing but 'verse-change' and 'character-change'; and under every
\* operation of the engine the flattened sequence stays what the constructor
\* made of the song data.
C35_SeekChangesCursorOnly ==
    [][/\ SeekTo =>
             /\ isRunning' = isRunning /\ syncLoop' = syncLoop /\ frames' = frames
             /\ handlers' = handlers /\ audio' = audio
             /\ \A k \in 1 .. Len(emitted') :
                   emitted'[k].kind \in {"verse-change", "character-change"}
       /\ characters' = characters
       /\ characters' = flattenCharacters(songData')]_vars

\* A seek on the running engine, with a tick pending, has moved the cursor
\* and announced the unit it landed on.
C35_Witness ==
    /\ op.name = "seekTo" /\ op.wasRunning
    /\ isRunning /\ syncLoop # 0 /\ syncLoop \in frames
    /\ currentIndex # op.from
    /\ Len(emitted) = 2

\* C1: after seekTo(t) on a non-empty sequence the cursor i has
\* characters[i].time <= t and is the last index or has characters[i+1].time > t,
\* unless t is before the first unit's time, and then i is 0.
C1_SeekCorrect ==
    (op.name = "seekTo" /\ N > 0) =>
        /\ currentIndex \in 0 .. (N - 1)
        /\ IF op.time < characters[1].time
           THEN currentIndex = 0
           ELSE /\ characters[currentIndex + 1].time <= op.time
                /\ (currentIndex = N - 1 \/ characters[currentIndex + 2].time > op.time)

\* A seek backwards that lands between two units, on neither end.
C1_Witness ==
    /\ op.name = "seekTo"
    /\ 0 < currentIndex /\ currentIndex < N - 1 /\ currentIndex < op.from
    /\ characters[currentIndex + 1].time < op.time
    /\ op.time < characters[currentIndex + 2].time

\* C2: an update tick (the one startSync runs included) never moves the cursor
\* backwards, whatever playback time it reads.
C2_ForwardOnly ==
    op.name \in {"update", "startSync"} => currentIndex >= op.from

\* A tick that read a playback time before the time of the unit at the
\* cursor (the clock went back) and left the cursor there.
C2_Witness ==
    /\ TickRan
    /\ currentIndex > 0 /\ currentIndex = op.from
    /\ op.time < characters[currentIndex + 1].time

\* C3: a running tick at time t emits one 'character-change' for each index
\* after the old cursor up to the new one, in ascending order, each of a unit
\* whose time is <= t, and ends at the last index or before a unit later than t.
C3_ScanStepwise ==
    (TickRan /\ N > 0) =>
        /\ Len(Emitted("character-change")) = currentIndex - op.from
        /\ \A k \in 1 .. (currentIndex - op.from) :
               /\ Emitted("character-change")[k].unit = op.from + k
               /\ characters[op.from + k + 1].time <= op.time
        /\ (currentIndex = N - 1 \/ characters[currentIndex + 2].time > op.time)

\* A tick that passed two units at once, the second at exactly the playback
\* time.
C3_Witness ==
    /\ TickRan
    /\ currentIndex = op.from + 2
    /\ characters[currentIndex + 1].time = op.time
    /\ Len(Emitted("character-change")) = 2

\* C4: in a running tick, 'verse-change' is emitted once for each advance onto
\* a unit whose verseIdx differs from the previous unit's, for that unit, and
\* for no other advance.
C4_VerseChangePerTransition ==
    TickRan =>
        /\ \A j \in (op.from + 1) .. currentIndex :
               Cardinality({k \in 1 .. Len(Emitted("verse-change")) :
                               Emitted("verse-change")[k].unit = j})
                 = IF characters[j].verseIdx # characters[j + 1].verseIdx THEN 1 ELSE 0
        /\ \A k \in 1 .. Len(Emitted("verse-change")) :
               /\ Emitted("verse-change")[k].unit \in (op.from + 1) .. currentIndex
               /\ Emitted("verse-change")[k].verseIdx
                    = characters[Emitted("verse-change")[k].unit + 1].verseIdx

\* A tick that advanced within a verse and then into another verse.
C4_Witness ==
    /\ TickRan
    /\ currentIndex = op.from + 2
    /\ characters[op.from + 1].verseIdx = characters[op.from + 2].verseIdx
    /\ characters[op.from + 2].verseIdx # characters[op.from + 3].verseIdx
    /\ Len(Emitted("verse-change")) = 1

\* C5: seekTo on a non-empty sequence emits exactly one 'verse-change' and one
\* 'character-change', both for the unit at the resulting cursor, whether or
\* not the cursor moved and whether or not the engine is running.
C5_SeekAlwaysEmits ==
    (op.name = "seekTo" /\ N > 0) =>
        /\ Len(emitted) = 2
        /\ Len(Emitted("verse-change")) = 1
        /\ Len(Emitted("character-change")) = 1
        /\ \A k \in 1 .. 2 :
               /\ emitted[k].unit = currentIndex
               /\ emitted[k].verseIdx = characters[currentIndex + 1].verseIdx
               /\ emitted[k].globalIdx = characters[currentIndex + 1].globalIdx

\* A seek on a stopped engine that left the cursor on the unit it was on.
C5_Witness ==
    /\ op.name = "seekTo"
    /\ ~isRunning
    /\ currentIndex = op.from /\ currentIndex > 0
    /\ Len(emitted) = 2

\* C6: when one operation emits a 'verse-change' and a 'character-change' for
\* the same unit, the 'verse-change' comes first.
C6_VerseBeforeCharacter ==
    \A a, b \in 1 .. Len(emitted) :
        (/\ emitted[a].kind = "verse-change"
         /\ emitted[b].kind = "character-change"
         /\ emitted[a].unit = emitted[b].unit) => a < b

\* A tick whose advance crossed into another verse.
C6_Witness ==
    /\ TickRan
    /\ currentIndex > op.from
    /\ Len(Emitted("verse-change")) > 0

\* C8: with a non-empty sequence the cursor is an index of it.
C8_CursorInRange ==
    N > 0 => (0 <= currentIndex /\ currentIndex < N)

\* A tick or a seek with a time beyond the last unit's time, which took the
\* cursor forward to the last index and no further.
C8_Witness ==
    /\ N >= 2
    /\ currentIndex = N - 1
    /\ op.name \in {"update", "seekTo"}
    /\ op.from < currentIndex
    /\ op.time > characters[N].time

C11_StartAnnouncesCursor ==
    (op.name = "startSync" /\ ~op.wasRunning /\ N > 0) =>
        /\ isRunning
        /\ Len(emitted) >= 3
        /\ emitted[1] = VerseChange(characters, op.from)
        /\ emitted[2] = CharacterChange(characters, op.from)
        /\ emitted[3].kind = "time-update"
        /\ \A k \in 1 .. Len(emitted) : emitted[k].kind = "time-update" => k = 3
        /\ syncLoop # 0 /\ syncLoop \in frames

\* A resume: startSync on a stopped engine whose cursor had moved off the
\* first unit, announcing the unit at that cursor.
C11_Witness ==
    /\ op.name = "startSync" /\ ~op.wasRunning
    /\ op.from > 0
    /\ isRunning
    /\ emitted[1].kind = "verse-change" /\ emitted[1].unit = op.from
    /\ emitted[2].kind = "character-change" /\ emitted[2].unit = op.from

\* C12: an update that runs on a running engine (a tick, or the update
\* startSync makes on starting) emits exactly one 'time-update', carrying the
\* playback time it read and the track's duration, before every
\* 'verse-change' and 'character-change' of its scan; an update on an engine
\* that is not running emits nothing.
C12_OneTimeUpdateFirst ==
    /\ TickRan =>
          /\ Len(emitted) >= 1
          /\ emitted[1] = TimeUpdate(audio.currentTime, audio.duration)
          /\ emitted[1].currentTime = op.time
          /\ \A k \in 2 .. Len(emitted) : emitted[k].kind # "time-update"
    /\ (op.name = "startSync" /\ ~op.wasRunning) =>
          /\ Len(Emitted("time-update")) = 1
          /\ Emitted("time-update")[1] = TimeUpdate(audio.currentTime, audio.duration)
          /\ \A a, b \in 1 .. Len(emitted) :
                 (emitted[a].kind = "time-update" /\ emitted[b].unit > op.from) => a < b
    /\ (op.name = "update" /\ ~op.wasRunning) => emitted = <<>>

\* A tick that emitted its 'time-update' and then a 'character-change' and a
\* 'verse-change', at a playback time other than the one before.
C12_Witness ==
    /\ TickRan
    /\ Len(emitted) >= 4
    /\ emitted[1].kind = "time-update" /\ emitted[1].currentTime = MaxTime
    /\ Len(Emitted("verse-change")) = 1

\* C15: startSync on an engine that is already running emits nothing, leaves
\* the cursor, the running flag and syncLoop as they are and requests no frame.
C15_StartWhileRunningNoOp ==
    [][(op'.name = "startSync" /\ op'.wasRunning) =>
          /\ emitted' = <<>>
          /\ isRunning /\ isRunning'
          /\ UNCHANGED <<characters, currentIndex, syncLoop, frames, handlers>>]_vars

\* startSync has returned at once on an engine that is running, with its
\* cursor past the first unit and its one frame pending.
C15_Witness ==
    /\ op.name = "startSync" /\ op.wasRunning
    /\ isRunning
    /\ currentIndex > 0
    /\ emitted = <<>>
    /\ frames = {syncLoop}

\* The number of characters in the first k verses.
RECURSIVE VersesLength(_, _)
VersesLength(verses, k) ==
    IF k = 0 THEN 0 ELSE VersesLength(verses, k - 1) + Len(verses[k])

\* C16: the flattened sequence is non-decreasing in time, whatever the order
\* of the times in the verses of the song.
C16_SortedByTime ==
    \A i \in 1 .. (N - 1) : characters[i].time <= characters[i + 1].time

\* An engine constructed with a song whose first verse has its times in
\* descending order and whose second verse is earlier than the first.
C16_Witness ==
    /\ Len(songData) = 2 /\ Len(songData[1]) = 2 /\ Len(songData[2]) = 1
    /\ songData[1][1] > songData[1][2]
    /\ songData[1][2] > songData[2][1]
    /\ N = 3
    /\ characters[1].time < characters[2].time /\ characters[2].time < characters[3].time

\* C17: every unit's globalIdx is its position in the flattened, time-sorted
\* sequence, for every song.
C17_GlobalIdxIsPosition ==
    \A i \in 1 .. N : characters[i].globalIdx = i - 1

\* C19: every character of every verse is in the flattened sequence exactly
\* once, with its time, the index of its verse, its index within the verse and
\* the position it was pushed at; the sequence is as long as the verses
\* together, so the sort only reorders the units.
C19_EveryCharacterOnce ==
    /\ N = VersesLength(songData, Len(songData))
    /\ \A v \in 1 .. Len(songData) : \A c \in 1 .. Len(songData[v]) :
           /\ Cardinality({i \in 1 .. N : /\ characters[i].verseIdx = v - 1
                                          /\ characters[i].charIdx = c - 1}) = 1
           /\ \A i \in 1 .. N :
                  (characters[i].verseIdx = v - 1 /\ characters[i].charIdx = c - 1) =>
                      /\ characters[i].time = songData[v][c]
                      /\ characters[i].globalIdx = VersesLength(songData, v - 1) + c - 1

\* An engine constructed with two verses, the first with two characters at
\* one time (kept both, in their order) and the second with a character
\* before them, which is first in the sequence.
C19_Witness ==
    /\ Len(songData) = 2 /\ Len(songData[1]) = 2 /\ Len(songData[2]) = 1
    /\ songData[1][1] = songData[1][2]
    /\ songData[2][1] < songData[1][1]
    /\ characters[1].verseIdx = 1 /\ characters[1].charIdx = 0
    /\ characters[2].charIdx = 0 /\ characters[3].charIdx = 1

\* C26: a tick that reads playback time t, starting from a cursor whose unit
\* has a time <= t (or from cursor 0), ends at the index seekTo(t) computes;
\* and a tick at time t that follows seekTo(t) leaves the cursor where the
\* seek put it and emits no 'character-change'.
C26_ScanAgreesWithSeek ==
    [][(op'.name = "update" /\ op'.wasRunning) =>
          /\ (N = 0 \/ currentIndex = 0 \/ characters[currentIndex + 1].time <= op'.time) =>
                 currentIndex' = seekIndex(characters, op'.time)
          /\ (op.name = "seekTo" /\ op.time = op'.time) =>
                 /\ currentIndex' = currentIndex
                 /\ Emitted("character-change")' = <<>>]_vars

\* A tick from a cursor past the first unit that advanced, to where a seek to
\* the time it read would have gone.
C26_Witness ==
    /\ TickRan
    /\ op.from > 0 /\ currentIndex > op.from
    /\ characters[op.from + 1].time <= op.time
    /\ currentIndex = seekIndex(characters, op.time)

----------------------------------------------------------------------------
(* Properties of the engine with its observers, checked under              *)
(* SpecObservers.                                                          *)

\* What startSync and update may do to the cursor: nothing when they return at
\* once (startSync on a running engine, update on a stopped one), else the
\* forward advance of update's loop, over units whose time the playback time
\* has reached.
ForwardAdvanceOnly ==
    op.name \in {"startSync", "update"} =>
        /\ (op.wasRunning = (op.name = "startSync")) => currentIndex = op.from
        /\ currentIndex >= op.from
        /\ \A j \in (op.from + 1) .. currentIndex : characters[j + 1].time <= op.time

\* C10 as stated: the cursor is moved only by the forward advance of update
\* (also when startSync is what runs update) and by seekTo; stopSync, reset, on
\* and off leave currentIndex as they found it.
C10_OnlyUpdateAndSeekMove ==
    /\ ForwardAdvanceOnly
    /\ op.name \in {"stopSync", "reset", "on", "off"} => currentIndex = op.from

\* C10 as the code has it: the same, except that reset sets the cursor to 0.
C10_CursorFrame ==
    /\ ForwardAdvanceOnly
    /\ op.name \in {"stopSync", "on", "off"} => currentIndex = op.from
    /\ op.name = "reset" => currentIndex = 0

\* reset on an engine whose cursor had moved on: the cursor is back at 0.
C10_Witness ==
    /\ op.name = "reset"
    /\ op.from > 0
    /\ currentIndex = 0

\* The number of callbacks the first n emits of the last operation invoked.
RECURSIVE CallsBefore(_)
CallsBefore(n) ==
    IF n = 0 THEN 0 ELSE CallsBefore(n - 1) + Len(handlers[emitted[n].kind])

\* Every emit of the last operation invoked every callback registered for its
\* kind, with its payload, in the order the callbacks are registered in, and
\* had invoked them all before the next emit began.
DeliveredInOrder ==
    /\ Len(delivered) = CallsBefore(Len(emitted))
    /\ \A n \in 1 .. Len(emitted) : \A i \in 1 .. Len(handlers[emitted[n].kind]) :
           delivered[CallsBefore(n - 1) + i]
             = [callback |-> handlers[emitted[n].kind][i], event |-> emitted[n]]

\* C18: several callbacks can be registered for one event kind; on registers
\* a callback behind those already registered for the kind (and changes no
\* other kind), and each emit invokes all the callbacks of its kind, in that
\* order, before it returns.
C18_RegistrationOrder ==
    [][/\ op'.name = "on" =>
             \A k \in DOMAIN handlers :
                 /\ Len(handlers'[k]) \in {Len(handlers[k]), Len(handlers[k]) + 1}
                 /\ SubSeq(handlers'[k], 1, Len(handlers[k])) = handlers[k]
       /\ DeliveredInOrder']_vars

\* Two callbacks registered for 'character-change', g before f, and a seek
\* whose 'character-change' invoked g and then f.
C18_Witness ==
    /\ op.name = "seekTo"
    /\ handlers["character-change"] = <<"g", "f">>
    /\ handlers["verse-change"] = <<>>
    /\ Len(emitted) = 2
    /\ delivered = <<[callback |-> "g", event |-> emitted[2]],
                     [callback |-> "f", event |-> emitted[2]]>>

----------------------------------------------------------------------------
(* Properties of the engine with an observer that stops it, checked under  *)
(* SpecStopper.                                                            *)

\* C13: an update that runs while the engine is stopped (after stopSync or
\* reset has returned, or before the first startSync), a frame left pending
\* included, emits nothing and leaves the cursor and the engine as they are;
\* an update entered on a running engine completes its scan even when one of
\* its emits runs a callback that calls stopSync: it emits one
\* 'character-change' for each index up to the last unit the playback time
\* has reached.
C13_StopHoldsLaterTicks ==
    /\ (op.name = "update" /\ ~op.wasRunning) =>
          (emitted = <<>> /\ currentIndex = op.from /\ ~isRunning)
    /\ TickRan =>
          /\ Len(Emitted("character-change")) = currentIndex - op.from
          /\ \A k \in 1 .. (currentIndex - op.from) :
                 Emitted("character-change")[k].unit = op.from + k
          /\ (currentIndex = N - 1 \/ characters[currentIndex + 2].time > op.time)

\* A tick whose first 'character-change' ran the Stopper and that went on to
\* the next unit all the same: the engine is stopped, the cursor two units
\* on, and the frame the tick requested is pending.
C13_Witness ==
    /\ TickRan /\ ~isRunning
    /\ currentIndex = op.from + 2
    /\ Len(delivered) = 2
    /\ delivered[1].callback = Stopper /\ delivered[1].event.unit = op.from + 1
    /\ syncLoop \in frames

\* The frame such a tick left pending has run on the stopped engine.
C13_LaterTickRan ==
    /\ op.name = "update" /\ ~op.wasRunning
    /\ syncLoop # 0 /\ frames = {}
    /\ emitted = <<>>

\* C14: when stopSync has returned the engine is not running, syncLoop is
\* null and no tick is pending; on an engine that was already stopped (or was
\* never started) it leaves the cursor where it was.
C14_StopCancelsEveryTick ==
    op.name = "stopSync" =>
        /\ ~isRunning
        /\ syncLoop = 0
        /\ frames = {}
        /\ ~op.wasRunning => currentIndex = op.from

\* C20: a running engine has the frame syncLoop names pending, and a tick
\* that leaves the engine running has requested exactly one frame for the one
\* that ran it, so the number of pending frames stays what it was.
C20_TickRearmsOnce ==
    [][/\ isRunning' => (syncLoop' # 0 /\ syncLoop' \in frames')
       /\ (op'.name = "update" /\ op'.wasRunning /\ isRunning') =>
             /\ frames # {}
             /\ Cardinality(frames') = Cardinality(frames)]_vars

\* A tick on an engine whose cursor was already on the last unit: nothing to
\* advance to, and the next frame is pending all the same.
C20_Witness ==
    /\ TickRan /\ isRunning
    /\ op.from = N - 1 /\ currentIndex = N - 1
    /\ Len(emitted) = 1
    /\ frames = {syncLoop}

\* C25: at most one update tick is pending at any time, whether the engine
\* is called between ticks or from inside a handler during a tick.
C25_OneTickPending ==
    Cardinality(frames) <= 1

----------------------------------------------------------------------------
(* Properties of the state store, checked under SpecStore.                 *)

\* The calls the last setState made of callback cb for key k.
NotifiedOf(k, cb) ==
    SelectSeq(store.notified, LAMBDA c : c.key = k /\ c.callback = cb)

\* C21: setState leaves the state merged with the updates, and calls a
\* callback subscribed to a key once, with the key's new and old value, if the
\* call changed the key's value, and not at all if it did not.
C21_NotifiedIffChanged ==
    op.name = "setState" =>
        /\ state = Assign(op.oldState, op.updates)
        /\ \A k \in DOMAIN store.observers : \A i \in 1 .. Len(store.observers[k]) :
               /\ Len(NotifiedOf(k, store.observers[k][i]))
                    = IF state[k] # op.oldState[k] THEN 1 ELSE 0
               /\ \A n \in 1 .. Len(NotifiedOf(k, store.observers[k][i])) :
                      /\ NotifiedOf(k, store.observers[k][i])[n].newVal = state[k]
                      /\ NotifiedOf(k, store.observers[k][i])[n].oldVal = op.oldState[k]

\* What every call of an unsubscribe function does, and whom setState calls:
\* the function's callback is no longer subscribed to its key, every other
\* callback of that key and every callback of the other keys stays where it
\* is, and a setState calls only callbacks subscribed at the time.
UnsubscribeRemovesOne ==
    /\ op'.name = "unsubscribe" =>
          /\ store.unsubscribes[op'.id].callback
                \notin {store'.observers[store.unsubscribes[op'.id].key][i] :
                           i \in 1 .. Len(store'.observers[store.unsubscribes[op'.id].key])}
          /\ \A k \in DOMAIN store.observers :
                 /\ k # store.unsubscribes[op'.id].key =>
                        store'.observers[k] = store.observers[k]
                 /\ \A i \in 1 .. Len(store'.observers[k]) :
                        \E j \in i .. Len(store.observers[k]) :
                            store'.observers[k][i] = store.observers[k][j]
                 /\ Len(store'.observers[k]) >= Len(store.observers[k]) - 1
    /\ op'.name = "setState" =>
          \A n \in 1 .. Len(store'.notified) :
              store'.notified[n].callback
                \in {store.observers[store'.notified[n].key][i] :
                       i \in 1 .. Len(store.observers[store'.notified[n].key])}

\* C22 as stated: an unsubscribe function takes its callback off its key and
\* leaves the other subscribers alone, later setState calls do not call a
\* callback that is not subscribed, and a call of an unsubscribe function that
\* has been called before changes nothing.
C22_SecondCallNoEffect ==
    [][/\ UnsubscribeRemovesOne
       /\ (op'.name = "unsubscribe" /\ op'.again) => store'.observers = store.observers]_vars

\* C22 as the code has it: the same, except that a call of an unsubscribe
\* function that has been called before changes nothing only if its callback
\* is not subscribed to its key at the time; if the callback has been
\* subscribed to the key again since, the call removes it.
C22_UnsubscribeByIdentity ==
    [][/\ UnsubscribeRemovesOne
       /\ (/\ op'.name = "unsubscribe"
           /\ store.unsubscribes[op'.id].callback
                 \notin {store.observers[store.unsubscribes[op'.id].key][i] :
                            i \in 1 .. Len(store.observers[store.unsubscribes[op'.id].key])})
             => store'.observers = store.observers]_vars

\* The first call of the unsubscribe function of f, with g subscribed to the
\* same key before f: g alone is left.
C22_Witness ==
    /\ op.name = "unsubscribe" /\ ~op.again
    /\ store.unsubscribes[op.id].callback = "f"
    /\ store.observers[store.unsubscribes[op.id].key] = <<"g">>
    /\ \E id \in 1 .. (op.id - 1) :
           /\ store.unsubscribes[id].callback = "g"
           /\ store.unsubscribes[id].key = store.unsubscribes[op.id].key
           /\ ~store.unsubscribes[id].called

----------------------------------------------------------------------------
(* Properties of the application, checked under SpecApp.                   *)

\* C23: once the intro is complete, togglePlayback (Space, or the play
\* button) alternates: a call that finds the store playing pauses the audio,
\* stops the engine and sets isPlaying false; a call that finds it not playing
\* has the audio play; and when the call before it started playback and
\* nothing has stopped or refused that since, the call stops it, whether or
\* not the audio.play() of the call before has completed.
C23_SpaceToggles ==
    [][(state.introComplete /\ KeySpace) =>
          /\ state.isPlaying => (audio'.paused /\ ~isRunning' /\ ~state'.isPlaying)
          /\ ~state.isPlaying => ~audio'.paused
          /\ app.toggledOn => (audio'.paused /\ ~isRunning' /\ ~state'.isPlaying)]_vars

\* C24: from the moment Escape is pressed, in whatever state, until the user
\* asks for playback again, the audio is paused, the engine is not running and
\* isPlaying is false.
C24_EscapeStops ==
    app.escaped => (audio.paused /\ ~isRunning /\ ~state.isPlaying)

\* The duration KaixinApp.seekTo clamps to: the track's, or 258 while unknown.
SeekDuration == IF audio.duration # 0 THEN audio.duration ELSE FallbackDuration

\* The elements in the document that carry 'golden-active'.
Highlighted == {e \in app.goldenActive : e[2] = app.renders}

\* C34: after any sequence of highlightCharacter and clearAll calls, for
\* characters with and without an element, at most one element in the
\* document carries 'golden-active', and it is the one highlighted last: an
\* element highlighted before has lost the class.
C34_OneHighlight ==
    /\ Cardinality(Highlighted) <= 1
    /\ Highlighted \subseteq {app.currentActive}

\* One character was highlighted, then one the renderer has no element for:
\* the first element is still currentActive and has lost the class.
C34_Witness ==
    /\ app.currentActive # <<>>
    /\ app.currentActive[2] = app.renders
    /\ app.currentActive \notin app.goldenActive
    /\ Highlighted = {}

\* C33: after every 'time-update' the application has handled, t being the
\* playback time it carried (kept as state.audioTime), the text is hidden if
\* and only if 116 <= t < 140, and sunrise particles are present if and only
\* if the text is hidden.
C33_HiddenDuringInterlude ==
    /\ app.textHidden <=> (116 <= state.audioTime /\ state.audioTime < 140)
    /\ (app.sunriseParticles > 0) <=> app.textHidden

\* A frame at the end of the interlude, after one within it: the text is
\* back and the sunrise particles are gone.
C33_Witness ==
    /\ TickRan /\ state.audioTime = 140
    /\ ~app.textHidden /\ app.sunriseParticles = 0
    /\ app.firefliesActive

\* C32: while state.introComplete is false, a click on the play button or a
\* skip button, a press of Space and a press or click on the timeline change
\* neither the state store, nor the audio element, nor the engine's cursor and
\* running flag, nor the audio.play() requests under way; and no step takes
\* state.introComplete from true to false.
C32_NoControlBeforeIntro ==
    [][/\ (~state.introComplete
           /\ (CtrlPlayClick \/ KeySpace \/ SkipBack \/ SkipForward \/ Scrub))
             => /\ state' = state /\ audio' = audio
                /\ currentIndex' = currentIndex /\ isRunning' = isRunning
                /\ app'.plays = app.plays
       /\ state.introComplete => state'.introComplete]_vars

\* A control has been used and ignored during the intro, while the track the
\* intro started is playing and the cursor has moved on.
C32_Witness ==
    /\ app.ignored /\ ~state.introComplete
    /\ state.isPlaying /\ ~audio.paused
    /\ currentIndex > 0

\* C31: once togglePlayback has been called and no audio.play() promise is
\* left unsettled, a rejected one included, the button shows the pause icon if
\* and only if state.isPlaying is true.
C31_IconShowsPlaying ==
    (app.toggled /\ app.plays = <<>>) => (app.icon = "pause" <=> state.isPlaying)

\* C30: in every state of the application between two handlers, the engine is
\* running only if state.isPlaying is true.
C30_RunningOnlyWhilePlaying == isRunning => state.isPlaying

\* Playback was stopped with Escape and the completion of an audio.play()
\* requested before has started the engine since: isPlaying is true with it.
C30_Witness ==
    /\ isRunning /\ state.isPlaying
    /\ app.escaped /\ audio.paused
    /\ op.name = "startSync"

\* The state store shows the unit at the engine's cursor.
Mirrors ==
    N > 0 =>
        /\ state.currentVerseIndex = characters[currentIndex + 1].verseIdx
        /\ state.currentCharIndex = characters[currentIndex + 1].globalIdx

\* C29: in the application, when a call of startSync (or of seekTo) has
\* returned, the state store holds the verseIdx and the globalIdx of the unit at
\* the cursor, and no later step (tick, seek, stop, start) ends this.
C29_StoreMirrorsCursor ==
    [][/\ op'.name \in {"startSync", "seekTo"} => Mirrors'
       /\ Mirrors => Mirrors']_vars

\* A tick has taken the cursor into another verse, to a unit whose globalIdx
\* is not its position, and the store shows that verse and that globalIdx.
C29_Witness ==
    /\ TickRan /\ op.from < currentIndex
    /\ characters[currentIndex + 1].verseIdx # characters[currentIndex].verseIdx
    /\ characters[currentIndex + 1].globalIdx # currentIndex
    /\ state.currentVerseIndex = characters[currentIndex + 1].verseIdx
    /\ state.currentCharIndex = characters[currentIndex + 1].globalIdx

\* C27: a step of the application that moves the playback position, other
\* than the playback itself (the position moving on by itself, play()
\* restarting a finished track, the metadata arriving), is a seekTo: it gives
\* the engine a target within [0, duration] and leaves audio.currentTime at that
\* same time; and the engine is given no target outside [0, duration] by any
\* step.
C27_SeeksClamped ==
    [][/\ (/\ audio'.currentTime # audio.currentTime
           /\ audio'.duration = audio.duration
           /\ Pending(app'.plays) <= Pending(app.plays)
           /\ ~(audio'.currentTime = audio.currentTime + 1 /\ op' = op))
             => (op'.name = "seekTo" /\ audio'.currentTime = op'.time)
       /\ (op'.name = "seekTo" /\ op' # op) =>
             /\ 0 <= op'.time /\ op'.time <= SeekDuration
             /\ audio'.currentTime = op'.time]_vars

\* A skip back from less than five seconds into the track, with the cursor
\* past the first unit: the audio and the engine were both given time 0.
C27_Witness ==
    /\ op.name = "seekTo" /\ op.time = 0
    /\ op.from > 0 /\ currentIndex = 0
    /\ audio.currentTime = 0
    /\ audio.duration # 0

\* C7: in every state the application reaches, the unit at the cursor has a
\* time <= the playback time, unless the cursor rests at 0 (where it waits
\* until playback has reached the first unit).
C7_CursorNotAhead ==
    N > 0 => (characters[currentIndex + 1].time <= audio.currentTime \/ currentIndex = 0)

============================================================================
